---- MODULE Spec2Model ----
(***************************************************************************)
(* A model of CrosswordCreator (generate.py): the crossword constraint     *)
(* solver.  solve() runs enforce_node_consistency, then ac3, then the      *)
(* recursive backtrack search.  Words are tuples of letters, variables are *)
(* numbered 1..n in the iteration order of the dict self.domains, and the  *)
(* recursion of backtrack is an explicit stack of frames.                  *)
(***************************************************************************)
EXTENDS Integers, Sequences, FiniteSets, TLC

\* ------------------------------------------------------------------------
\* Bounds of the model: the crosswords it covers have one to three variables
\* of one or two letters each, any overlaps between them, and a vocabulary of
\* at most MaxWords words over a two-letter alphabet.
MaxWords == 3

\* The longest explicit list of arcs ac3 is called with.
MaxArcs == 1

VarCounts == 1..3
Lengths == 1..2
Alphabet == {"a", "b"}

\* ------------------------------------------------------------------------
\* Python values.
\* None: the value of a missing overlap, and the failure result of backtrack.
None == <<>>
\* A variable that is no key of the assignment dict.
Unassigned == <<>>
\* A returned dict, as opposed to None.
Some(a) == <<a>>
\* No variable (the initial highest_degree_vertex, and a frame before line 278).
NoVar == 0

VARIABLES
    crossword,   \* self.crossword: variables, their lengths, overlaps, words
    domains,     \* self.domains: variable -> set of words
    pc,          \* the position of solve()
    arcsarg,     \* the argument `arcs` of the last call of ac3
    arcs,        \* the worklist of ac3
    ac3ret,      \* what ac3 returned: "none" (not yet), "true", "false"
    assignment,  \* the one dict the backtrack calls share
    stack,       \* the frames of the nested backtrack calls, innermost last
    retval,      \* the value the last finished backtrack call returned
    retline,     \* the return statement that call executed
    result       \* what solve() returned

vars == <<crossword, domains, pc, arcsarg, arcs, ac3ret, assignment, stack,
          retval, retline, result>>

\* ------------------------------------------------------------------------
\* The crossword model handed to the constructor.
AllWords == UNION {[1..k -> Alphabet] : k \in Lengths}
Vocabularies == {W \in SUBSET AllWords : Cardinality(W) \in 1..MaxWords}
UPairs(n) == {p \in (1..n) \X (1..n) : p[1] < p[2]}
OPairs(n) == {p \in (1..n) \X (1..n) : p[1] # p[2]}
Offsets == {k - 1 : k \in Lengths}
AllOffsets == {None} \cup (Offsets \X Offsets)
Swap(o) == IF o = None THEN None ELSE <<o[2], o[1]>>

\* The overlaps of every ordered pair, from those of the pairs x < y.
Overlaps(n, O) ==
    [p \in OPairs(n) |-> IF p[1] < p[2] THEN O[p] ELSE Swap(O[<<p[2], p[1]>>])]

\* The orders in which iterating over the set S can yield its elements.
Orderings(S) ==
    {s \in [1..Cardinality(S) -> S] : \A i, j \in DOMAIN s : i # j => s[i] # s[j]}

\* The orders in which the set of words W is iterated.  A domain is a copy of
\* W that only loses elements, so it is iterated in the order of W; and only
\* node-consistent domains are iterated where the order shows (line 213), so
\* only the order among words of one length matters: shorter words are put
\* first.
WordLists(W) ==
    {s \in Orderings(W) : \A i, j \in DOMAIN s : i < j => Len(s[i]) <= Len(s[j])}

\* The variables: how many, the length of each, the overlap of each pair x < y.
Structures ==
    {q \in UNION {{n} \X [1..n -> Lengths] \X [UPairs(n) -> AllOffsets] :
                    n \in VarCounts} :
        \A p \in UPairs(q[1]) :
            q[3][p] # None =>
                /\ q[3][p][1] < q[2][p[1]]
                /\ q[3][p][2] < q[2][p[2]]}

Crosswords ==
    {[variables |-> 1..q[1], length |-> q[2], overlaps |-> Overlaps(q[1], q[3]),
      words |-> {wl[i] : i \in DOMAIN wl}, wordlist |-> wl] :
        q \in Structures, wl \in UNION {WordLists(W) : W \in Vocabularies}}

Variables == crossword.variables

\* crossword.neighbors(var)
Neighbors(var) ==
    {v \in Variables : v # var /\ crossword.overlaps[<<v, var>>] # None}

\* The order in which the domain S, a set of words, is iterated.
Iter(S) == SelectSeq(crossword.wordlist, LAMBDA word : word \in S)

\* ------------------------------------------------------------------------
\* enforce_node_consistency that removes only the words that are too long.
EnforceNodeConsistencyLonger(d) ==
    [node \in DOMAIN d |-> {word \in d[node] : Len(word) <= crossword.length[node]}]

\* enforce_node_consistency
EnforceNodeConsistency(d) ==
    [node \in DOMAIN d |-> {word \in d[node] : Len(word) = crossword.length[node]}]

\* ------------------------------------------------------------------------
\* revise that lets a word support itself, as textbook AC-3 does.
IsSatisfiedClassical(possible_value, check, constraints) ==
    possible_value[constraints[1] + 1] = check[constraints[2] + 1]

\* revise: whether `check` of domain_2 satisfies possible_value
IsSatisfied(possible_value, check, constraints) ==
    /\ possible_value # check
    /\ possible_value[constraints[1] + 1] = check[constraints[2] + 1]

\* revise that goes through the vocabulary words of x's length instead of
\* the current domain of x.
ReviseFromVocabulary(d, x, y) ==
    [d EXCEPT ![x] =
        {possible_value \in {w \in crossword.words : Len(w) = crossword.length[x]} :
            \E check \in d[y] :
                IsSatisfied(possible_value, check, crossword.overlaps[<<x, y>>])}]

\* revise that keeps a value only if every word of domain(y) satisfies it.
ReviseEvery(d, x, y) ==
    [d EXCEPT ![x] =
        {possible_value \in d[x] :
            \A check \in d[y] :
                IsSatisfied(possible_value, check, crossword.overlaps[<<x, y>>])}]

\* revise: the domains after revise(x, y)
Revise(d, x, y) ==
    [d EXCEPT ![x] =
        {possible_value \in d[x] :
            \E check \in d[y] :
                IsSatisfied(possible_value, check, crossword.overlaps[<<x, y>>])}]

\* revise: its return value is_revised, set at line 138 when a value is removed
IsRevised(d, x, y) ==
    \E possible_value \in d[x] :
        ~ \E check \in d[y] :
            IsSatisfied(possible_value, check, crossword.overlaps[<<x, y>>])

\* ------------------------------------------------------------------------
\* ac3, line 151: the initial list of arcs of the variables v, v+1, ...: the
\* variables in dict order, the neighbors of each in the order its set yields.
RECURSIVE ArcLists(_)
ArcLists(v) ==
    IF v \notin Variables
    THEN {<<>>}
    ELSE {[i \in 1..Len(o) |-> <<v, o[i]>>] \o rest :
            o \in Orderings(Neighbors(v)), rest \in ArcLists(v + 1)}

\* The argument `arcs` of ac3: None (the default), or a list of arcs.
ArcsNone == [given |-> FALSE, list |-> <<>>]
ArcsList(l) == [given |-> TRUE, list |-> l]

\* ac3, line 150: `not arcs`, true of None and of the empty list
NotArcs(arg) == ~arg.given \/ arg.list = <<>>

\* ac3, lines 150-152: the worklists the call can start with
InitialWorklists(arg) == IF NotArcs(arg) THEN ArcLists(1) ELSE {arg.list}

\* ac3 that appends no arc after a revision.
RequeueNothing(x, y, o) == <<>>

\* ac3, lines 157-159: the arcs appended after x was revised against y, where
\* o is the order in which neighbors(x) is iterated.
Requeue(x, y, o) ==
    LET z == SelectSeq(o, LAMBDA neighbor : neighbor # y)
    IN  [i \in 1..Len(z) |-> <<z[i], x>>]

\* ------------------------------------------------------------------------
\* backtrack whose line 284 never finds a word in use.
NoValues(a) == {}

\* The keys of the assignment dict, and its values.
Keys(a) == {v \in DOMAIN a : a[v] # Unassigned}
Values(a) == {a[v] : v \in Keys(a)}
EmptyAssignment == [v \in Variables |-> Unassigned]

\* assignment_complete
AssignmentComplete(a) == \A i \in DOMAIN domains : i \in Keys(a)

\* consistent with the letter comparison of line 191 inverted.
ConsistentInverted(a) ==
    \A var \in Keys(a) :
        /\ a[var] \in domains[var]
        /\ \A neighbor \in Neighbors(var) \cap Keys(a) :
              LET the_constraint == crossword.overlaps[<<var, neighbor>>]
              IN  \/ the_constraint = None
                  \/ a[var][the_constraint[1] + 1] # a[neighbor][the_constraint[2] + 1]

\* consistent
Consistent(a) ==
    \A var \in Keys(a) :
        /\ a[var] \in domains[var]
        /\ \A neighbor \in Neighbors(var) \cap Keys(a) :
              LET the_constraint == crossword.overlaps[<<var, neighbor>>]
              IN  \/ the_constraint = None
                  \/ a[var][the_constraint[1] + 1] = a[neighbor][the_constraint[2] + 1]

\* ------------------------------------------------------------------------
\* order_domain_values: neighboring_values.count(one_value)
Count(var, one_value) ==
    Cardinality({neighbor \in Neighbors(var) : one_value \in domains[neighbor]})

\* order_domain_values with the counts sorted in descending order.
RECURSIVE MinimumAffectDescending(_, _, _)
MinimumAffectDescending(var, iter, c) ==
    IF c > Cardinality(Neighbors(var))
    THEN <<>>
    ELSE MinimumAffectDescending(var, iter, c + 1)
            \o SelectSeq(iter, LAMBDA one_value : Count(var, one_value) = c)

\* order_domain_values, lines 220-223: counts_dict[i] for the counts i = c, c+1,
\* ... in ascending order, each in the order `iter` in which the domain was
\* iterated.
RECURSIVE MinimumAffect(_, _, _)
MinimumAffect(var, iter, c) ==
    IF c > Cardinality(Neighbors(var))
    THEN <<>>
    ELSE SelectSeq(iter, LAMBDA one_value : Count(var, one_value) = c)
            \o MinimumAffect(var, iter, c + 1)

\* order_domain_values (its `return False` is the empty sequence: line 280
\* treats both alike)
OrderDomainValues(var, a, iter) ==
    IF var \in Keys(a) THEN <<>> ELSE MinimumAffect(var, iter, 0)

\* ------------------------------------------------------------------------
\* select_unassigned_variable
\* float("inf"): above every domain size
Infinity == Cardinality(crossword.words) + 1
\* min_remaining_values, which no line assigns after line 239
MinRemainingValues == Infinity
\* highest_degree, which no line assigns after line 251
HighestDegree == -1

\* lines 240-247: `candidates` after the loop has visited variables 1..k
RECURSIVE Candidates(_, _)
Candidates(a, k) ==
    IF k = 0
    THEN <<>>
    ELSE LET before == Candidates(a, k - 1)
             values == domains[k]
             cleared == IF Cardinality(values) < MinRemainingValues
                        THEN <<k>> ELSE before
         IN  IF k \in Keys(a) THEN before
             ELSE IF Cardinality(values) = MinRemainingValues
                  THEN Append(cleared, k) ELSE cleared

\* lines 252-257: highest_degree_vertex after the loop has visited
\* candidates[1..k]
RECURSIVE HighestDegreeVertex(_, _)
HighestDegreeVertex(candidates, k) ==
    IF k = 0
    THEN NoVar
    ELSE IF Cardinality(Neighbors(candidates[k])) > HighestDegree
         THEN candidates[k]
         ELSE HighestDegreeVertex(candidates, k - 1)

SelectUnassignedVariable(a) ==
    LET candidates == Candidates(a, Cardinality(Variables))
    IN  IF Len(candidates) = 1
        THEN candidates[1]
        ELSE HighestDegreeVertex(candidates, Len(candidates))

\* ------------------------------------------------------------------------
\* __init__: every variable starts with a copy of the whole vocabulary.
Init ==
    /\ crossword \in Crosswords
    /\ domains = [var \in crossword.variables |-> crossword.words]
    /\ pc = "node"
    /\ arcsarg = ArcsNone
    /\ arcs = <<>>
    /\ ac3ret = "none"
    /\ assignment = [var \in crossword.variables |-> Unassigned]
    /\ stack = <<>>
    /\ retval = None
    /\ retline = "none"
    /\ result = None

\* solve, line 91
SolveNodeConsistency ==
    /\ pc = "node"
    /\ domains' = EnforceNodeConsistency(domains)
    /\ pc' = "ac3"
    /\ UNCHANGED <<crossword, arcsarg, arcs, ac3ret, assignment, stack, retval, retline, result>>

\* ac3, lines 150-151, called with the argument arg where solve() or another
\* caller is at `from`; `loop` is the position of the call's while loop.
Ac3Call(from, loop, arg) ==
    /\ pc = from
    /\ arcsarg' = arg
    /\ arcs' \in InitialWorklists(arg)
    /\ ac3ret' = "none"
    /\ pc' = loop
    /\ UNCHANGED <<crossword, domains, assignment, stack, retval, retline, result>>

\* ac3, lines 152-159: one turn of the while loop; `exit` is where the caller
\* goes on after the call.
Ac3Turn(loop, exit) ==
    /\ pc = loop
    /\ arcs # <<>>
    /\ LET x == Head(arcs)[1]
           y == Head(arcs)[2]
       IN  /\ domains' = Revise(domains, x, y)
           /\ IF IsRevised(domains, x, y)
              THEN IF domains'[x] = {}
                   THEN /\ arcs' = <<>>  \* the list dies with the call
                        /\ ac3ret' = "false"
                        /\ pc' = exit
                   ELSE /\ \E o \in Orderings(Neighbors(x)) :
                              arcs' = Tail(arcs) \o Requeue(x, y, o)
                        /\ UNCHANGED <<ac3ret, pc>>
              ELSE /\ arcs' = Tail(arcs)
                   /\ UNCHANGED <<ac3ret, pc>>
    /\ UNCHANGED <<crossword, arcsarg, assignment, stack, retval, retline, result>>

\* ac3, lines 152 and 160: the worklist is empty
Ac3Exit(loop, exit) ==
    /\ pc = loop
    /\ arcs = <<>>
    /\ ac3ret' = "true"
    /\ pc' = exit
    /\ UNCHANGED <<crossword, arcsarg, domains, arcs, assignment, stack, retval,
                   retline, result>>

\* solve, line 92: self.ac3()
Ac3Begin ==
    /\ pc = "ac3"
    /\ Ac3Call("ac3", "ac3_loop", ArcsNone)

\* ac3, lines 152-159, in the call of solve()
Ac3Step ==
    /\ pc = "ac3_loop"
    /\ Ac3Turn("ac3_loop", "search")

\* ac3, line 160, in the call of solve(): its result is dropped (line 92)
Ac3Return ==
    /\ pc = "ac3_loop"
    /\ Ac3Exit("ac3_loop", "search")

\* ------------------------------------------------------------------------
\* A frame of backtrack: its position, possible_assignment, value_candidates,
\* the index of the candidate its for loop is at, and (for the record) the
\* assignment it was called with.
EntryFrame(a) == [pc |-> "enter", var |-> NoVar, cands |-> <<>>, i |-> 0, entry |-> a]
Top == stack[Len(stack)]
SetTop(f) == [stack EXCEPT ![Len(stack)] = f]

\* backtrack that recurses without binding the variable.
BindNothing(a, var, value) == a

\* backtrack, line 286: assignment[possible_assignment] = value
Bind(a, var, value) == [a EXCEPT ![var] = value]

\* backtrack that leaves the failed binding in the dict.
KeepBinding(a, var) == a

\* backtrack, line 289: assignment.pop(possible_assignment)
Unbind(a, var) == [a EXCEPT ![var] = Unassigned]

\* The for loop of backtrack ended at the first candidate that failed.
GiveUpAfterFailure(f) == [f EXCEPT !.pc = "loop", !.i = Len(f.cands) + 1]

\* The for loop of backtrack takes the failed candidate again.
RetryAfterFailure(f) == [f EXCEPT !.pc = "loop"]

\* backtrack, lines 288-290 and 283: after a failed candidate the for loop
\* goes on to the next one.
ContinueAfterFailure(f) == [f EXCEPT !.pc = "loop", !.i = f.i + 1]

\* The innermost call returns `value` at the return statement `line`: to its
\* caller's line 287, or to solve's line 93.
Return(value, line) ==
    /\ retval' = value
    /\ retline' = line
    /\ IF Len(stack) = 1
       THEN /\ stack' = <<>>
            /\ result' = value
            /\ pc' = "done"
       ELSE /\ stack' = [SubSeq(stack, 1, Len(stack) - 1)
                            EXCEPT ![Len(stack) - 1].pc = "after_call"]
            /\ UNCHANGED <<result, pc>>

\* solve, line 93: backtrack(dict()), whatever ac3 returned
SolveBacktrack ==
    /\ pc = "search"
    /\ assignment' = EmptyAssignment
    /\ stack' = <<EntryFrame(EmptyAssignment)>>
    /\ pc' = "backtrack"
    /\ UNCHANGED <<crossword, arcsarg, domains, arcs, ac3ret, retval, retline, result>>

\* backtrack, lines 271-282: the checks, then the choice of the variable and
\* of its candidates
BtEnter ==
    /\ pc = "backtrack"
    /\ Top.pc = "enter"
    /\ IF ~Consistent(assignment)
       THEN Return(None, "inconsistent")
       ELSE IF AssignmentComplete(assignment)
            THEN Return(Some(assignment), "complete")
            ELSE LET possible_assignment == SelectUnassignedVariable(assignment)
                     value_candidates ==
                         OrderDomainValues(possible_assignment, assignment,
                                           Iter(domains[possible_assignment]))
                 IN  IF value_candidates = <<>>
                     THEN Return(Some(assignment), "no_candidates")
                     ELSE /\ stack' = SetTop([pc |-> "loop",
                                              var |-> possible_assignment,
                                              cands |-> value_candidates,
                                              i |-> 1,
                                              entry |-> Top.entry])
                          /\ UNCHANGED <<pc, retval, retline, result>>
    /\ UNCHANGED <<crossword, arcsarg, domains, arcs, ac3ret, assignment>>

\* backtrack, lines 283-287 and 293: the for loop takes its next candidate
BtLoop ==
    /\ pc = "backtrack"
    /\ Top.pc = "loop"
    /\ IF Top.i > Len(Top.cands)
       THEN /\ Return(None, "exhausted")
            /\ UNCHANGED assignment
       ELSE IF Top.cands[Top.i] \in Values(assignment)
            THEN /\ stack' = SetTop([Top EXCEPT !.i = Top.i + 1])
                 /\ UNCHANGED <<pc, retval, retline, result, assignment>>
            ELSE /\ assignment' = Bind(assignment, Top.var, Top.cands[Top.i])
                 /\ stack' = Append(SetTop([Top EXCEPT !.pc = "called"]),
                                    EntryFrame(assignment'))
                 /\ UNCHANGED <<pc, retval, retline, result>>
    /\ UNCHANGED <<crossword, arcsarg, domains, arcs, ac3ret>>

\* backtrack, lines 288-292: the recursive call has returned is_done
BtAfterCall ==
    /\ pc = "backtrack"
    /\ Top.pc = "after_call"
    /\ IF retval = None
       THEN /\ assignment' = Unbind(assignment, Top.var)
            /\ stack' = SetTop(ContinueAfterFailure(Top))
            /\ UNCHANGED <<pc, retval, retline, result>>
       ELSE /\ Return(retval, "found")
            /\ UNCHANGED assignment
    /\ UNCHANGED <<crossword, arcsarg, domains, arcs, ac3ret>>

Next ==
    \/ SolveNodeConsistency
    \/ Ac3Begin
    \/ Ac3Step
    \/ Ac3Return
    \/ SolveBacktrack
    \/ BtEnter
    \/ BtLoop
    \/ BtAfterCall

Spec == Init /\ [][Next]_vars

\* solve() is one sequential program: while a step is possible, one is taken.
FairSpec == Spec /\ WF_vars(Next)

\* ------------------------------------------------------------------------
\* Preprocessing run twice: enforce_node_consistency (lines 95-107) is called
\* again, after its first call or after ac3, and then ac3 (lines 141-160) is
\* called again with all arcs if its first call returned True.

\* enforce_node_consistency, lines 95-107, called a second time
NodeConsistencyAgain ==
    /\ pc \in {"ac3", "search"}
    /\ domains' = EnforceNodeConsistency(domains)
    /\ pc' = "node_again"
    /\ UNCHANGED <<crossword, arcsarg, arcs, ac3ret, assignment, stack, retval,
                   retline, result>>

\* ac3, lines 150-151, called a second time after it returned True
Ac3AgainBegin ==
    /\ ac3ret = "true"
    /\ Ac3Call("node_again", "ac3_again", ArcsNone)

\* ac3, lines 152-159, in the second call
Ac3AgainStep ==
    /\ pc = "ac3_again"
    /\ Ac3Turn("ac3_again", "again_done")

\* ac3, line 160, in the second call
Ac3AgainReturn ==
    /\ pc = "ac3_again"
    /\ Ac3Exit("ac3_again", "again_done")

NextAgain ==
    \/ SolveNodeConsistency
    \/ Ac3Begin
    \/ Ac3Step
    \/ Ac3Return
    \/ NodeConsistencyAgain
    \/ Ac3AgainBegin
    \/ Ac3AgainStep
    \/ Ac3AgainReturn

SpecAgain == Init /\ [][NextAgain]_vars

\* ------------------------------------------------------------------------
\* ac3 called with an argument: None, or a list of at most MaxArcs arcs.

\* the arcs of the structure, as line 151 writes them
AllArcs == {a \in Variables \X Variables : a[2] \in Neighbors(a[1]) /\ a[2] # a[1]}

ArcsArguments ==
    {ArcsNone} \cup
    {ArcsList(l) : l \in UNION {[1..k -> AllArcs] : k \in 0..MaxArcs}}

\* ac3, lines 141-151: ac3(arcs) after enforce_node_consistency
Ac3WithArcs ==
    /\ pc = "ac3"
    /\ \E arg \in ArcsArguments : Ac3Call("ac3", "ac3_loop", arg)

NextArcs ==
    \/ SolveNodeConsistency
    \/ Ac3WithArcs
    \/ Ac3Step
    \/ Ac3Return

SpecArcs == Init /\ [][NextArcs]_vars

\* ------------------------------------------------------------------------
\* What the claims speak of.

\* A complete assignment of vocabulary words of the right lengths that meets
\* every overlap and uses no word twice.
IsSolution(a) ==
    /\ \A v \in Variables : a[v] \in crossword.words
    /\ \A v \in Variables : Len(a[v]) = crossword.length[v]
    /\ \A x \in Variables : \A y \in Neighbors(x) :
          a[x][crossword.overlaps[<<x, y>>][1] + 1]
              = a[y][crossword.overlaps[<<x, y>>][2] + 1]
    /\ \A x, y \in Variables : x # y => a[x] # a[y]

Satisfiable == \E a \in [Variables -> crossword.words] : IsSolution(a)

\* Some variable has no vocabulary word of its length.
NodeEmpty ==
    \E v \in Variables : \A w \in crossword.words : Len(w) # crossword.length[v]

\* The domains node consistency leaves.
NodeConsistentDomains ==
    [v \in Variables |-> {w \in crossword.words : Len(w) = crossword.length[v]}]

\* v of domain(x) has a support in D[y] other than itself.
Supported(D, x, y, v) ==
    \E w \in D[y] :
        /\ w # v
        /\ v[crossword.overlaps[<<x, y>>][1] + 1]
              = w[crossword.overlaps[<<x, y>>][2] + 1]

\* The number of occurrences of the word w in the domains of var's neighbors.
ConflictScore(var, w) ==
    Cardinality({q \in Neighbors(var) \X crossword.words :
                    q[2] = w /\ q[2] \in domains[q[1]]})

\* The frames that have chosen their variable and candidates.
ChosenFrames == {k \in DOMAIN stack : stack[k].pc # "enter"}

\* C1: whenever solve() returns a value other than None, that assignment is
\* complete, every word has its variable's length, every pair of neighbors
\* meets its overlap, and the words are pairwise distinct.
SolveReturnsOnlySolutions ==
    (pc = "done" /\ result # None) => IsSolution(result[1])

\* C2: for a satisfiable crossword solve() returns a complete assignment that
\* is a solution, never None and never an incomplete assignment.
SatisfiableIsSolved ==
    (pc = "done" /\ Satisfiable) => (result # None /\ IsSolution(result[1]))

\* A satisfiable crossword of three variables, two of them crossing, has been
\* solved, and some variable did not get the first word of its domain.
SatisfiableIsSolvedWitness ==
    /\ pc = "done"
    /\ Satisfiable
    /\ result # None
    /\ Cardinality(Variables) = 3
    /\ \E v \in Variables : Neighbors(v) # {}
    /\ \E v \in Variables : result[1][v] # Head(Iter(domains[v]))

\* C3: if solve() returns None, no complete assignment of right-length,
\* pairwise distinct words meets every overlap.
NoneMeansUnsatisfiable ==
    (pc = "done" /\ result = None) => ~Satisfiable

\* solve() returned None after ac3 had returned True with no domain empty:
\* the search itself exhausted every branch.
NoneMeansUnsatisfiableWitness ==
    /\ pc = "done"
    /\ result = None
    /\ ac3ret = "true"
    /\ retline = "exhausted"
    /\ \A v \in Variables : domains[v] # {}

\* C4: when ac3 returns False inside solve(), solve() returns None and the
\* backtracking search is never entered.
Ac3FailureSkipsSearch ==
    ac3ret = "false" =>
        /\ pc # "backtrack"
        /\ pc = "done" => result = None

\* C5: if node consistency leaves some variable with an empty domain, solve()
\* returns None.
NodeEmptyReturnsNone ==
    (pc = "done" /\ NodeEmpty) => result = None

\* C6: a backtrack call whose chosen variable has no candidates returns None,
\* never the current assignment.
NoCandidatesReturnsNone ==
    retline = "no_candidates" => retval = None

\* C7: after ac3 returned True, every value of every domain has, in the domain
\* of each neighbor, a support other than itself.
ArcConsistentAfterAc3 ==
    ac3ret = "true" =>
        \A x \in Variables : \A y \in Neighbors(x) : \A v \in domains[x] :
            Supported(domains, x, y, v)

\* ac3 returned True with every domain non-empty, after removing a value that
\* had a support in every neighbor's node-consistent domain: it lost its
\* support only when a neighbor was revised.
ArcConsistentAfterAc3Witness ==
    /\ ac3ret = "true"
    /\ \A x \in Variables : domains[x] # {}
    /\ \E x \in Variables :
          \E v \in NodeConsistentDomains[x] \ domains[x] :
              \A y \in Neighbors(x) : Supported(NodeConsistentDomains, x, y, v)

\* C8: ac3 returns True only if no domain is empty on return, and returns
\* False if some domain ended up empty.
Ac3ResultTellsEmptyDomain ==
    /\ ac3ret = "true" => \A v \in Variables : domains[v] # {}
    /\ ac3ret = "false" => \E v \in Variables : domains[v] = {}

\* C9: the variable select_unassigned_variable returns is unassigned, has the
\* smallest domain among the unassigned variables, and among those of that
\* size has the most neighbors.
SelectsMinimumRemainingValues ==
    (pc = "backtrack" /\ Top.pc = "loop" /\ Top.i = 1) =>
        LET unassigned == Variables \ Keys(assignment)
            tied == {v \in unassigned :
                        \A u \in unassigned :
                            Cardinality(domains[v]) <= Cardinality(domains[u])}
        IN  /\ Top.var \in tied
            /\ \A t \in tied :
                  Cardinality(Neighbors(t)) <= Cardinality(Neighbors(Top.var))

ValidPartial(a) ==
    /\ \A v \in Keys(a) : a[v] \in domains[v]
    /\ \A x, y \in Keys(a) : x # y => a[x] # a[y]
    /\ \A x \in Keys(a) : \A y \in Neighbors(x) \cap Keys(a) :
          a[x][crossword.overlaps[<<x, y>>][1] + 1]
              = a[y][crossword.overlaps[<<x, y>>][2] + 1]

\* C11: wherever a backtrack call has passed its consistency check (it has
\* chosen its variable and is about to bind a candidate, or it has returned an
\* assignment), every assigned value is in its variable's domain, no two
\* variables hold the same word, and assigned neighbors meet their overlap.
SearchKeepsAssignmentValid ==
    /\ (pc = "backtrack" /\ Top.pc = "loop") => ValidPartial(assignment)
    /\ retval # None => ValidPartial(retval[1])

\* A call is about to take a candidate that another variable already holds,
\* while two crossing variables are assigned.
SearchKeepsAssignmentValidWitness ==
    /\ pc = "backtrack"
    /\ Top.pc = "loop"
    /\ Top.i <= Len(Top.cands)
    /\ Top.cands[Top.i] \in Values(assignment)
    /\ \E x \in Keys(assignment) : Neighbors(x) \cap Keys(assignment) # {}

\* C12: no word of a solution is ever removed from its variable's domain: in
\* every state, for every solution S and variable x, S[x] is in domain(x).
SolutionsSurvivePruning ==
    \A S \in [Variables -> crossword.words] :
        IsSolution(S) => \A x \in Variables : S[x] \in domains[x]

\* ac3 has returned after removing a value from the domain of some variable
\* of a satisfiable crossword.
SolutionsSurvivePruningWitness ==
    /\ ac3ret = "true"
    /\ Satisfiable
    /\ \E x \in Variables : domains[x] # NodeConsistentDomains[x]

\* The innermost call returns None in this step.
ReturnsNone == Len(stack') = Len(stack) - 1 /\ retval' = None

\* C13: whenever a backtrack call returns None, the assignment is exactly
\* what it was when that call was entered.
FailureRestoresAssignment ==
    [][(pc = "backtrack" /\ ReturnsNone) => assignment' = Top.entry]_vars

\* A nested call has returned None after going through all its candidates.
FailureRestoresAssignmentWitness ==
    /\ pc = "backtrack"
    /\ Len(stack) >= 2
    /\ Top.pc = "after_call"
    /\ retline = "exhausted"
    /\ retval = None

\* C14: no step widens a domain, and no step of the search changes one.
DomainsOnlyShrink ==
    [][/\ \A v \in Variables : domains'[v] \subseteq domains[v]
       /\ pc \in {"search", "backtrack", "done"} => domains' = domains]_vars

\* The search is two calls deep on domains that ac3 has pruned.
DomainsOnlyShrinkWitness ==
    /\ pc = "backtrack"
    /\ Len(stack) >= 3
    /\ \E v \in Variables :
          domains[v] # {} /\ domains[v] # NodeConsistentDomains[v]

\* C15: from the end of enforce_node_consistency on, every word of every
\* domain has its variable's length; and right after it every vocabulary
\* word of that length is still there.
DomainsHaveSlotLength ==
    /\ pc # "node" =>
          \A v \in Variables : \A w \in domains[v] : Len(w) = crossword.length[v]
    /\ pc = "ac3" =>
          \A v \in Variables : \A w \in crossword.words :
              Len(w) = crossword.length[v] => w \in domains[v]

\* Node consistency has just removed a word from a domain and kept another.
DomainsHaveSlotLengthWitness ==
    /\ pc = "ac3"
    /\ \E v \in Variables : domains[v] # {} /\ domains[v] # crossword.words

\* C20: on entry to a backtrack call, the number of calls nested beneath the
\* initial one equals the number of entries of the assignment, and so never
\* exceeds the number of variables.
DepthIsAssignmentSize ==
    (pc = "backtrack" /\ Top.pc = "enter") =>
        /\ Len(stack) - 1 = Cardinality(Keys(assignment))
        /\ Len(stack) - 1 <= Cardinality(Variables)

\* A call is entered three calls beneath the initial one, with all three
\* variables assigned.
DepthIsAssignmentSizeWitness ==
    /\ pc = "backtrack"
    /\ Top.pc = "enter"
    /\ Len(stack) = 4
    /\ Cardinality(Keys(assignment)) = 3

\* C18: revise(x, y) leaves in domain(x) exactly the values that have, in
\* domain(y), a support other than themselves; it changes no other domain;
\* and it returns True if and only if it removed a value.
ReviseKeepsSupportedValues ==
    [][(pc = "ac3_loop" /\ arcs # <<>>) =>
        LET x == Head(arcs)[1]
            y == Head(arcs)[2]
        IN  /\ domains'[x] = {v \in domains[x] : Supported(domains, x, y, v)}
            /\ \A z \in Variables \ {x} : domains'[z] = domains[z]
            /\ IsRevised(domains, x, y) <=> domains'[x] # domains[x]]_vars

\* A revise has removed a value from a domain and kept another, and ac3 goes
\* on.
ReviseKeepsSupportedValuesWitness ==
    /\ pc = "ac3_loop"
    /\ \E v \in Variables :
          domains[v] # {} /\ domains[v] # NodeConsistentDomains[v]

\* C17: solve() eventually returns; and in ac3 the worklist fails to get
\* shorter only in a step that removes a value from a domain.
SolveTerminates ==
    /\ <>(pc = "done")
    /\ [][(pc = "ac3_loop" /\ pc' = "ac3_loop" /\ Len(arcs') >= Len(arcs)) =>
            \E v \in Variables :
                domains'[v] # domains[v] /\ domains'[v] \subseteq domains[v]]_vars

\* solve() has returned a solution of a three-variable crossword after ac3
\* pruned a domain and the search gave up a candidate.
SolveTerminatesWitness ==
    /\ pc = "done"
    /\ Cardinality(Variables) = 3
    /\ ac3ret = "true"
    /\ retline = "found"
    /\ \E v \in Variables : domains[v] # NodeConsistentDomains[v]
    /\ \E v \in Variables : result[1][v] # Head(Iter(domains[v]))

\* C16: preprocessing is idempotent.  A second enforce_node_consistency changes
\* no domain; a second ac3 with all arcs, after a first ac3 that returned True,
\* changes no domain, finds revise returning False for every arc it takes from
\* its worklist, and returns True.
PreprocessingIsIdempotent ==
    /\ [][pc' = "node_again" => domains' = domains]_vars
    /\ [][pc = "ac3_again" =>
            /\ domains' = domains
            /\ arcs # <<>> => ~IsRevised(domains, Head(arcs)[1], Head(arcs)[2])]_vars
    /\ [](pc = "again_done" => ac3ret = "true")

\* The second ac3 has returned on a crossword of three variables where the first
\* ac3 had removed words.
PreprocessingIsIdempotentWitness ==
    /\ pc = "again_done"
    /\ Cardinality(Variables) = 3
    /\ \E v \in Variables : domains[v] # NodeConsistentDomains[v]
    /\ \A v \in Variables : domains[v] # {}

\* C19: ac3 starts from the list of all arcs only when its argument is None;
\* given a list, the empty one included, the worklist starts as that list, so
\* ac3([]) revises nothing, changes no domain and returns True.
ExplicitArcsAreTheWorklist ==
    /\ [][(pc = "ac3" /\ pc' = "ac3_loop") =>
            /\ arcsarg'.given => arcs' = arcsarg'.list
            /\ ~arcsarg'.given => arcs' \in ArcLists(1)]_vars
    /\ [][(pc = "ac3_loop" /\ arcsarg = ArcsList(<<>>)) =>
            /\ arcs = <<>>
            /\ domains' = domains
            /\ ac3ret' = "true"]_vars

====
